---- MODULE Spec2Model ----
(***************************************************************************)
(* A model of the tss-sdk-go API client (src/server/server.go): client     *)
(* construction (New), URL resolution (urlFor), token acquisition          *)
(* (getAccessToken), resource access (accessResource) and file upload      *)
(* (uploadFile), together with the process-wide state New writes to (the   *)
(* default transport's TLS configuration and zerolog's global level), the  *)
(* HTTP exchanges the client issues and the log entries it emits.          *)
(*                                                                         *)
(* A Go string is a sequence of pieces; a piece is either the slash "/",   *)
(* a single character, or a run of characters that contains no slash.      *)
(* The empty string is <<>>.  strings.Trim(s, "/") and concatenation act   *)
(* on pieces exactly as they act on the characters.  Strings that the code *)
(* only compares or copies (credentials, error texts) are TLA+ strings,    *)
(* "" being the empty one.                                                 *)
(***************************************************************************)
EXTENDS Integers, Sequences, FiniteSets, TLC

VARIABLES
    server,        \* the Server the caller holds (the last one New returned), or NoServer
    transportTLS,  \* http.DefaultTransport.(*http.Transport).TLSClientConfig
    globalLevel,   \* zerolog's global level
    calls,         \* one record per finished call, in order: operation, error, and
                   \* for New the TLSClientConfig and LogLevel it was given
    wire,          \* the HTTP exchanges issued so far, in order, each tagged with its call
    logs,          \* the log entries emitted so far, in order, each tagged with its call
    last           \* the arguments and the result of the most recent call

vars == <<server, transportTLS, globalLevel, calls, wire, logs, last>>

----------------------------------------------------------------------------
(* Bounds of the model *)

\* the number of New calls in a behaviour
MaxNew == 2
\* the number of accessResource and uploadFile calls in a behaviour
MaxCalls == 2
\* the longest argument string, in pieces, that the URL specification draws
MaxLen == 3
\* the longest filename, in characters, that the filename specification draws
MaxName == 4

----------------------------------------------------------------------------
(* Program constants: src/server/server.go lines 19-24 and 243-251 *)

Scheme == <<"https:", "/", "/">>

cloudBaseURLTemplate(tenant, tld) ==
    Scheme \o tenant \o <<".secretservercloud.">> \o tld \o <<"/">>

defaultAPIPathURI == <<"/", "api", "/", "v1">>

defaultTokenPathURI == <<"/", "oauth2", "/", "token">>

defaultTLD == <<"com">>

LevelTrace == -2
LevelDebug == -1
LevelInfo == 0
LevelWarn == 1
LevelError == 2

NoServer == [none |-> TRUE]

NoError == "nil"

----------------------------------------------------------------------------
(* Library functions the code calls *)

RECURSIVE TrimLeft(_, _)
\* strings.TrimLeft(s, c) for a one-character cutset
TrimLeft(s, c) ==
    IF s # <<>> /\ Head(s) = c THEN TrimLeft(Tail(s), c) ELSE s

RECURSIVE TrimRight(_, _)
\* strings.TrimRight(s, c) for a one-character cutset
TrimRight(s, c) ==
    IF s # <<>> /\ s[Len(s)] = c THEN TrimRight(SubSeq(s, 1, Len(s) - 1), c) ELSE s

\* an off-by-one slip: only the leading slashes are removed
TrimLeadingOnly(s, c) ==
    TrimLeft(s, c)

\* strings.Trim(s, c): every leading and every trailing c removed
Trim(s, c) ==
    TrimRight(TrimLeft(s, c), c)

----------------------------------------------------------------------------
(* New: src/server/server.go lines 46-79 *)

\* the switch of lines 65-76: the zerolog level a LogLevel selects
zerologLevel(level) ==
    CASE level = LevelTrace -> "trace"
      [] level = LevelDebug -> "debug"
      [] level = LevelWarn -> "warn"
      [] level = LevelError -> "error"
      [] OTHER -> "info"

\* a slip: only the case of both fields empty is rejected
invalidConfigBothEmptyOnly(config) ==
    config.ServerURL = <<>> /\ config.Tenant = <<>>

\* the condition of line 47
invalidConfig(config) ==
    \/ (config.ServerURL = <<>> /\ config.Tenant = <<>>)
    \/ (config.ServerURL # <<>> /\ config.Tenant # <<>>)

\* lines 50-63: the defaults and the trimming applied to the copy of config
normalized(config) ==
    LET api == IF config.apiPathURI = <<>> THEN defaultAPIPathURI ELSE config.apiPathURI
        tok == IF config.tokenPathURI = <<>> THEN defaultTokenPathURI ELSE config.tokenPathURI
    IN  [config EXCEPT
            !.TLD = IF config.TLD = <<>> THEN defaultTLD ELSE config.TLD,
            !.apiPathURI = Trim(api, "/"),
            !.tokenPathURI = Trim(tok, "/")]

\* a slip: the transport and the level are written before the validation
NewSideEffectsFirst(config) ==
    [ server |-> IF invalidConfig(config) THEN NoServer ELSE normalized(config),
      err    |-> IF invalidConfig(config)
                 THEN "either ServerURL or Tenant must be set" ELSE NoError,
      tls    |-> IF config.TLSClientConfig # "nil"
                 THEN config.TLSClientConfig ELSE transportTLS,
      level  |-> zerologLevel(config.LogLevel),
      logs   |-> <<>> ]

\* New(config): the Server and error returned, the transport's TLS configuration
\* and the global level after the call, and the log entries emitted
New(config) ==
    IF invalidConfig(config)
    THEN [ server |-> NoServer,
           err    |-> "either ServerURL or Tenant must be set",
           tls    |-> transportTLS,
           level  |-> globalLevel,
           logs   |-> <<>> ]
    ELSE [ server |-> normalized(config),
           err    |-> NoError,
           tls    |-> IF config.TLSClientConfig # "nil"
                      THEN config.TLSClientConfig ELSE transportTLS,
           level  |-> zerologLevel(config.LogLevel),
           logs   |-> <<>> ]

----------------------------------------------------------------------------
(* urlFor: src/server/server.go lines 82-103 *)

urlFor(s, resource, path) ==
    LET baseURL == IF s.ServerURL = <<>>
                   THEN cloudBaseURLTemplate(s.Tenant, s.TLD)
                   ELSE s.ServerURL
    IN  IF resource = <<"token">>
        THEN Trim(baseURL, "/") \o <<"/">> \o Trim(s.tokenPathURI, "/")
        ELSE Trim(baseURL, "/") \o <<"/">> \o Trim(s.apiPathURI, "/") \o <<"/">>
                \o Trim(resource, "/") \o <<"/">> \o Trim(path, "/")

----------------------------------------------------------------------------
(* The HTTP layer: requests, responses and the shared response handler *)

NoBody == [json |-> FALSE, has_access_token |-> FALSE, access_token |-> ""]

\* a response whose transport failed carries neither status nor body
TransportError == [transportErr |-> TRUE, status |-> 0, body |-> NoBody]

Response(status, body) == [transportErr |-> FALSE, status |-> status, body |-> body]

\* handleResponse: the error of the transport if there is one, the body of a 2xx
\* response, an error for every other status
handleResponse(resp) ==
    IF resp.transportErr
    THEN [data |-> NoBody, err |-> "transport error"]
    ELSE IF resp.status > 199 /\ resp.status < 300
         THEN [data |-> resp.body, err |-> NoError]
         ELSE [data |-> NoBody, err |-> "status error"]

\* url.Parse inside http.NewRequest and http.Post: an invalid percent-escape is
\* one of the inputs it rejects
urlParses(url) ==
    \A i \in DOMAIN url : url[i] # "%zz"

\* net/http validMethod: a non-empty run of token characters (a space is none)
validMethod(method) ==
    method # <<>> /\ \A i \in DOMAIN method : method[i] # " "

\* http.NewRequest(method, url, body): "" means GET
NewRequest(method, url, body) ==
    LET m == IF method = <<>> THEN <<"GET">> ELSE method
    IN  IF ~validMethod(m)
        THEN [err |-> "invalid method", method |-> m, url |-> url, body |-> body]
        ELSE IF ~urlParses(url)
             THEN [err |-> "parse url", method |-> m, url |-> url, body |-> body]
             ELSE [err |-> NoError, method |-> m, url |-> url, body |-> body]

\* json.Marshal(input): a channel, a function or a complex number has no encoding
Marshal(input) ==
    IF input.type \in {"chan", "func", "complex"}
    THEN [data |-> <<>>, err |-> "json: unsupported type"]
    ELSE [data |-> <<"json", input.type>>, err |-> NoError]

\* json.Unmarshal(data, &grant) of lines 228-235: an error for a body that is not
\* JSON; a field the object does not carry keeps its zero value
Unmarshal(data) ==
    IF ~data.json
    THEN [AccessToken |-> "", err |-> "invalid character"]
    ELSE [AccessToken |-> IF data.has_access_token THEN data.access_token ELSE "",
          err |-> NoError]

Log(level, msg) == [level |-> level, msg |-> msg]

----------------------------------------------------------------------------
(* getAccessToken: src/server/server.go lines 207-241 *)

\* lines 212-219: the form posted to the token endpoint
grantForm(s) ==
    { <<"username", s.Credentials.Username>>,
      <<"password", s.Credentials.Password>>,
      <<"grant_type", "password">> }
    \cup (IF s.Credentials.Domain # "" THEN { <<"domain", s.Credentials.Domain>> } ELSE {})

\* lines 212-240: the password grant, one POST to the token endpoint
passwordGrant(s, tokenResp) ==
    LET url == urlFor(s, <<"token">>, <<>>)
        post == [ method |-> <<"POST">>, url |-> url, authorization |-> <<>>,
                  contentType |-> "application/x-www-form-urlencoded",
                  payload |-> [form |-> grantForm(s)], resp |-> tokenResp ]
        \* http.Post sends nothing when the URL does not parse
        sent == IF urlParses(url) THEN <<post>> ELSE <<>>
        r == IF urlParses(url) THEN handleResponse(tokenResp)
             ELSE handleResponse(TransportError)
        grant == Unmarshal(r.data)
    IN  IF r.err # NoError
        THEN [ token |-> "", err |-> r.err, wire |-> sent,
               logs |-> <<Log("error", "grant response error")>> ]
        ELSE IF grant.err # NoError
             THEN [ token |-> "", err |-> grant.err, wire |-> sent,
                    logs |-> <<Log("error", "parsing grant response")>> ]
             ELSE [ token |-> grant.AccessToken, err |-> NoError, wire |-> sent,
                    logs |-> <<>> ]

\* a slip: the static token is not looked at
getAccessTokenAlwaysGrant(s, tokenResp) ==
    passwordGrant(s, tokenResp)

\* a slip: a grant obtained by an earlier call is kept and used again
getAccessTokenCached(s, tokenResp) ==
    LET granted == { i \in DOMAIN wire :
                        /\ wire[i].e.url = urlFor(s, <<"token">>, <<>>)
                        /\ ~wire[i].e.resp.transportErr
                        /\ wire[i].e.resp.body.has_access_token }
    IN  IF s.Credentials.AccessToken # ""
        THEN [ token |-> s.Credentials.AccessToken, err |-> NoError,
               wire |-> <<>>, logs |-> <<>> ]
        ELSE IF granted # {}
             THEN [ token |-> wire[CHOOSE i \in granted : TRUE].e.resp.body.access_token,
                    err |-> NoError, wire |-> <<>>, logs |-> <<>> ]
             ELSE passwordGrant(s, tokenResp)

getAccessToken(s, tokenResp) ==
    IF s.Credentials.AccessToken # ""
    THEN [ token |-> s.Credentials.AccessToken, err |-> NoError,
           wire |-> <<>>, logs |-> <<>> ]
    ELSE passwordGrant(s, tokenResp)

----------------------------------------------------------------------------
(* accessResource: src/server/server.go lines 107-153 *)

\* a slip: the default case of the switch is missing
knownResourceAny(resource) ==
    TRUE

\* the switch of lines 108-116
knownResource(resource) ==
    resource \in { <<"secrets">>, <<"secret-templates">> }

NilInput == [nil |-> TRUE, type |-> "nil"]

\* a slip: the token is fetched first, as uploadFile does, before the payload is encoded
accessResourceTokenFirst(s, method, resource, path, input, tokenResp, resourceResp) ==
    IF ~knownResource(resource)
    THEN [ data |-> NoBody, err |-> "unknown resource", wire |-> <<>>,
           logs |-> <<Log("error", "unknown resource")>> ]
    ELSE
    LET t == getAccessToken(s, tokenResp)
        m == Marshal(input)
        body == IF input.nil THEN <<>> ELSE m.data
        req == NewRequest(method, urlFor(s, resource, path), body)
        send == [ method |-> req.method, url |-> req.url,
                  authorization |-> <<"Bearer ", t.token>>,
                  contentType |-> IF method \in { <<"POST">>, <<"PUT">>, <<"PATCH">> }
                                  THEN "application/json" ELSE "",
                  payload |-> [json |-> body], resp |-> resourceResp ]
        r == handleResponse(resourceResp)
    IN  IF t.err # NoError
        THEN [ data |-> NoBody, err |-> t.err, wire |-> t.wire,
               logs |-> t.logs \o <<Log("error", "error getting accessToken")>> ]
        ELSE IF ~input.nil /\ m.err # NoError
        THEN [ data |-> NoBody, err |-> m.err, wire |-> t.wire,
               logs |-> <<Log("error", "marshaling the request body to JSON")>> ]
        ELSE IF req.err # NoError
        THEN [ data |-> NoBody, err |-> req.err, wire |-> t.wire,
               logs |-> <<Log("error", "creating req")>> ]
        ELSE [ data |-> r.data, err |-> r.err, wire |-> t.wire \o <<send>>,
               logs |-> t.logs \o <<Log("debug", "calling")>> ]

accessResource(s, method, resource, path, input, tokenResp, resourceResp) ==
    IF ~knownResource(resource)
    THEN [ data |-> NoBody, err |-> "unknown resource", wire |-> <<>>,
           logs |-> <<Log("error", "unknown resource")>> ]
    ELSE
    LET m == Marshal(input)
        body == IF input.nil THEN <<>> ELSE m.data
        req == NewRequest(method, urlFor(s, resource, path), body)
        t == getAccessToken(s, tokenResp)
        send == [ method |-> req.method, url |-> req.url,
                  authorization |-> <<"Bearer ", t.token>>,
                  contentType |-> IF method \in { <<"POST">>, <<"PUT">>, <<"PATCH">> }
                                  THEN "application/json" ELSE "",
                  payload |-> [json |-> body], resp |-> resourceResp ]
        r == handleResponse(resourceResp)
    IN  IF ~input.nil /\ m.err # NoError
        THEN [ data |-> NoBody, err |-> m.err, wire |-> <<>>,
               logs |-> <<Log("error", "marshaling the request body to JSON")>> ]
        ELSE IF req.err # NoError
        THEN [ data |-> NoBody, err |-> req.err, wire |-> <<>>,
               logs |-> <<Log("error", "creating req")>> ]
        ELSE IF t.err # NoError
        THEN [ data |-> NoBody, err |-> t.err, wire |-> t.wire,
               logs |-> t.logs \o <<Log("error", "error getting accessToken")>> ]
        ELSE [ data |-> r.data, err |-> r.err, wire |-> t.wire \o <<send>>,
               logs |-> t.logs \o <<Log("debug", "calling")>> ]

----------------------------------------------------------------------------
(* uploadFile: src/server/server.go lines 157-203 *)

\* the package's resource name for secrets, used by line 193
resource == <<"secrets">>

\* the class \w of the regular expression of line 175
WordChars ==
    { "a", "b", "c", "d", "e", "f", "g", "h", "i", "j", "k", "l", "m",
      "n", "o", "p", "q", "r", "s", "t", "u", "v", "w", "x", "y", "z",
      "A", "B", "C", "D", "E", "F", "G", "H", "I", "J", "K", "L", "M",
      "N", "O", "P", "Q", "R", "S", "T", "U", "V", "W", "X", "Y", "Z",
      "0", "1", "2", "3", "4", "5", "6", "7", "8", "9", "_" }

\* a slip: the pattern lacks its final $, so a dot and a word character anywhere match
matchExtensionUnanchored(filename) ==
    \E i, j \in DOMAIN filename :
        /\ i < j
        /\ \A k \in i .. (j - 1) : filename[k] # "."
        /\ filename[j] = "."
        /\ j < Len(filename)
        /\ filename[j + 1] \in WordChars

\* regexp.Match("[^.]+\\.\\w+$", filename): somewhere in the name, one or more
\* characters other than a dot, then a dot, then word characters up to the end
matchExtension(filename) ==
    \E i, j \in DOMAIN filename :
        /\ i < j
        /\ \A k \in i .. (j - 1) : filename[k] # "."
        /\ filename[j] = "."
        /\ j < Len(filename)
        /\ \A k \in (j + 1) .. Len(filename) : filename[k] \in WordChars

\* lines 171-178: the filename of the multipart file part
partFilename(filename) ==
    IF filename = <<>>
    THEN <<"F", "i", "l", "e", ".", "t", "x", "t">>
    ELSE IF ~matchExtension(filename)
         THEN filename \o <<".", "t", "x", "t">>
         ELSE filename

\* multipart.Writer.CreateFormFile, io.Copy and Close write to a bytes.Buffer, whose
\* Write never returns an error: the returns of lines 180-190 are not taken
uploadFile(s, secretId, fileField, tokenResp, resourceResp) ==
    LET path == <<ToString(secretId), "/", "fields", "/">> \o fileField.Slug
        start == Log("debug", "uploading a file")
        t == getAccessToken(s, tokenResp)
        filename == partFilename(fileField.Filename)
        named == IF fileField.Filename = <<>>
                 THEN <<Log("debug", "field has no filename")>>
                 ELSE IF ~matchExtension(fileField.Filename)
                      THEN <<Log("debug", "field has no filename extension")>>
                      ELSE <<>>
        body == [file |-> [filename |-> filename, content |-> fileField.ItemValue]]
        req == NewRequest(<<"PUT">>, urlFor(s, resource, path), body)
        send == [ method |-> req.method, url |-> req.url,
                  authorization |-> <<"Bearer ", t.token>>,
                  contentType |-> "multipart/form-data",
                  payload |-> body, resp |-> resourceResp ]
        r == handleResponse(resourceResp)
    IN  IF t.err # NoError
        THEN [ err |-> t.err, wire |-> t.wire,
               logs |-> <<start>> \o t.logs \o <<Log("error", "error getting accessToken")>> ]
        ELSE IF req.err # NoError
        THEN [ err |-> req.err, wire |-> t.wire,
               logs |-> <<start>> \o t.logs \o named ]
        ELSE [ err |-> r.err, wire |-> t.wire \o <<send>>,
               logs |-> <<start>> \o t.logs \o named \o <<Log("debug", "uploading file with PUT")>> ]

----------------------------------------------------------------------------
(* The calls of a program that uses the package *)

\* the number of finished calls of the operations in ops
Count(ops) == Cardinality({ i \in DOMAIN calls : calls[i].op \in ops })

\* the entries of one call, tagged with the number of the call
Tagged(entries, n) == [ i \in DOMAIN entries |-> [call |-> n, e |-> entries[i]] ]

\* the number of the call now being made
ThisCall == Len(calls) + 1

Init ==
    /\ server = NoServer
    /\ transportTLS = "nil"
    /\ globalLevel = "debug"
    /\ calls = <<>>
    /\ wire = <<>>
    /\ logs = <<>>
    /\ last = [op |-> "none"]

\* tss, err := server.New(config)
CallNew(config) ==
    LET r == New(config)
    IN  /\ server' = IF r.err = NoError THEN r.server ELSE server
        /\ transportTLS' = r.tls
        /\ globalLevel' = r.level
        /\ calls' = Append(calls, [op |-> "New", err |-> r.err,
                                  tls |-> config.TLSClientConfig, level |-> config.LogLevel])
        /\ logs' = logs \o Tagged(r.logs, ThisCall)
        /\ last' = [op |-> "New", config |-> config, server |-> r.server, err |-> r.err]
        /\ UNCHANGED wire

\* tss.urlFor(resource, path)
CallUrlFor(res, path) ==
    /\ server # NoServer
    /\ last' = [op |-> "urlFor", resource |-> res, path |-> path,
                url |-> urlFor(server, res, path)]
    /\ calls' = Append(calls, [op |-> "urlFor", err |-> NoError, tls |-> "nil", level |-> LevelInfo])
    /\ UNCHANGED <<server, transportTLS, globalLevel, wire, logs>>

\* tss.accessResource(method, resource, path, input)
CallAccessResource(method, res, path, input, tokenResp, resourceResp) ==
    LET r == accessResource(server, method, res, path, input, tokenResp, resourceResp)
    IN  /\ server # NoServer
        /\ calls' = Append(calls, [op |-> "accessResource", err |-> r.err, tls |-> "nil", level |-> LevelInfo])
        /\ wire' = wire \o Tagged(r.wire, ThisCall)
        /\ logs' = logs \o Tagged(r.logs, ThisCall)
        /\ last' = [op |-> "accessResource", method |-> method, resource |-> res,
                    path |-> path, input |-> input, data |-> r.data, err |-> r.err]
        /\ UNCHANGED <<server, transportTLS, globalLevel>>

\* tss.uploadFile(secretId, fileField)
CallUploadFile(secretId, fileField, tokenResp, resourceResp) ==
    LET r == uploadFile(server, secretId, fileField, tokenResp, resourceResp)
    IN  /\ server # NoServer
        /\ calls' = Append(calls, [op |-> "uploadFile", err |-> r.err, tls |-> "nil", level |-> LevelInfo])
        /\ wire' = wire \o Tagged(r.wire, ThisCall)
        /\ logs' = logs \o Tagged(r.logs, ThisCall)
        /\ last' = [op |-> "uploadFile", secretId |-> secretId, fileField |-> fileField,
                    err |-> r.err]
        /\ UNCHANGED <<server, transportTLS, globalLevel>>

----------------------------------------------------------------------------
(* Inputs: the configurations, arguments and server responses drawn *)

Config(url, tenant, tld, api, token, tlsConfig, level, cred) ==
    [ Credentials |-> cred, ServerURL |-> url, TLD |-> tld, Tenant |-> tenant,
      apiPathURI |-> api, tokenPathURI |-> token, TLSClientConfig |-> tlsConfig,
      LogLevel |-> level ]

StaticCredential == [AccessToken |-> "static", Domain |-> "", Username |-> "", Password |-> ""]

StaticAndPassword == [AccessToken |-> "static", Domain |-> "d", Username |-> "u", Password |-> "p"]

PasswordCredential == [AccessToken |-> "", Domain |-> "", Username |-> "u", Password |-> "p"]

DomainCredential == [AccessToken |-> "", Domain |-> "d", Username |-> "u", Password |-> "p"]

HostURL == Scheme \o <<"h", "/">>

NotJSON == NoBody

EmptyObject == [json |-> TRUE, has_access_token |-> FALSE, access_token |-> ""]

Grant(token) == [json |-> TRUE, has_access_token |-> TRUE, access_token |-> token]

TokenResponses ==
    { TransportError, Response(200, NotJSON), Response(200, EmptyObject),
      Response(200, Grant("tokA")), Response(200, Grant("tokB")) }

ResourceResponses ==
    { Response(200, EmptyObject), Response(404, NoBody) }

\* every string of at most n pieces over the given alphabet
Strs(alphabet, n) == UNION { [1 .. k -> alphabet] : k \in 0 .. n }

ExamplePath == <<"5", "/", "fields", "/", "x">>

----------------------------------------------------------------------------------------------------------------------------------------
(* Spec: a program that builds a client, stops if New fails (as the examples *)
(* of the repository do) and otherwise calls accessResource and uploadFile  *)

ClientConfigs ==
    { Config(<<>>, <<"acme">>, <<>>, <<>>, <<>>, "nil", LevelInfo, PasswordCredential),
      Config(HostURL, <<>>, <<>>, <<>>, <<>>, "nil", LevelInfo, DomainCredential),
      Config(HostURL, <<>>, <<>>, <<>>, <<>>, "nil", LevelInfo, StaticAndPassword),
      Config(<<>>, <<"acme">>, <<>>, <<>>, <<>>, "nil", LevelInfo, StaticCredential),
      Config(<<>>, <<>>, <<>>, <<>>, <<>>, "nil", LevelInfo, PasswordCredential),
      Config(HostURL, <<"acme">>, <<>>, <<>>, <<>>, "nil", LevelInfo, StaticCredential) }

StructInput == [nil |-> FALSE, type |-> "struct"]

ChanInput == [nil |-> FALSE, type |-> "chan"]

\* the argument lists <<method, resource, path, input>> of the accessResource calls
ResourceCalls ==
    { << <<"GET">>, <<"secrets">>, <<"1">>, NilInput >>,
      << <<"PUT">>, <<"secret-templates">>, <<"1">>, StructInput >>,
      << <<"PUT">>, <<"secrets">>, <<"1">>, ChanInput >>,
      << <<"G", " ", "T">>, <<"secrets">>, <<"1">>, NilInput >>,
      << <<"GET">>, <<"secrets">>, <<"%zz">>, StructInput >> }
    \cup { << m, <<"unknown-thing">>, p, i >> :
             m \in { <<"GET">>, <<"G", " ", "T">> }, p \in { <<"1">>, <<"%zz">> },
             i \in { NilInput, ChanInput } }

Fields ==
    { [Slug |-> <<"key">>, Filename |-> <<"k", ".", "p">>, ItemValue |-> "content"],
      [Slug |-> <<"%zz">>, Filename |-> <<>>, ItemValue |-> "content"] }

ClientOps == { "accessResource", "uploadFile" }

Next ==
    \/ \E config \in ClientConfigs : calls = <<>> /\ CallNew(config)
    \/ \E call \in ResourceCalls, tokenResp \in TokenResponses,
          resourceResp \in ResourceResponses :
          /\ Count(ClientOps) < MaxCalls
          /\ CallAccessResource(call[1], call[2], call[3], call[4], tokenResp, resourceResp)
    \/ \E field \in Fields, tokenResp \in TokenResponses,
          resourceResp \in ResourceResponses :
          /\ Count(ClientOps) < MaxCalls
          /\ CallUploadFile(1, field, tokenResp, resourceResp)

Spec == Init /\ [][Next]_vars

----------------------------------------------------------------------------
(* SpecNew: a program that calls New again and again *)

NewConfigs ==
    { Config(u, t, <<>>, <<>>, <<>>, tlsConfig, level, StaticCredential) :
        u \in { <<>>, HostURL }, t \in { <<>>, <<"acme">> },
        tlsConfig \in { "nil", "tlsA", "tlsB" },
        level \in { LevelTrace, LevelDebug, LevelInfo, LevelWarn, LevelError, 7 } }

NextNew ==
    \E config \in NewConfigs : Count({"New"}) < MaxNew /\ CallNew(config)

SpecNew == Init /\ [][NextNew]_vars

----------------------------------------------------------------------------
(* SpecUrl: a program that builds a client and resolves one URL *)

UrlConfigs ==
    { Config(u, t, tld, api, token, "nil", LevelInfo, StaticCredential) :
        u \in { <<>>, Scheme \o <<"h">>, HostURL, HostURL \o <<"/">> },
        t \in { <<>>, <<"acme">> }, tld \in { <<>>, <<"eu">> },
        api \in Strs({"/", "a"}, MaxLen) \cup { defaultAPIPathURI },
        token \in { <<>>, <<"/">>, <<"/", "t", "/">> } }

UrlResources == { <<"token">>, <<"secrets">>, <<"/", "secrets", "/">>, <<"/">>, <<>> }

UrlPaths == Strs({"/", "a"}, MaxLen) \cup { ExamplePath }

NextUrl ==
    \/ \E config \in UrlConfigs : calls = <<>> /\ CallNew(config)
    \/ \E res \in UrlResources, path \in UrlPaths :
          Count({"urlFor"}) = 0 /\ CallUrlFor(res, path)

SpecUrl == Init /\ [][NextUrl]_vars

----------------------------------------------------------------------------
(* SpecFile: a program that builds a client and uploads one file *)

FileConfigs ==
    { Config(<<>>, <<"acme">>, <<>>, <<>>, <<>>, "nil", LevelInfo, c) :
        c \in { StaticCredential, PasswordCredential } }

Filenames ==
    Strs({"a", ".", "-"}, MaxName)
    \cup { <<"f", "o", "o">>, <<"f", "o", "o", ".", "b", "i", "n">> }

NextFile ==
    \/ \E config \in FileConfigs : calls = <<>> /\ CallNew(config)
    \/ \E name \in Filenames :
          /\ Count({"uploadFile"}) = 0
          /\ CallUploadFile(1, [Slug |-> <<"key">>, Filename |-> name, ItemValue |-> "content"],
                            Response(200, Grant("tokA")), Response(200, EmptyObject))

SpecFile == Init /\ [][NextFile]_vars

----------------------------------------------------------------------------
(* What the properties read from a state *)

\* the HTTP exchanges of call n, in the order they were issued
WireOf(n) == SelectSeq(wire, LAMBDA w : w.call = n)

\* the log entries of call n
LogsOf(n) == SelectSeq(logs, LAMBDA l : l.call = n)

\* a POST to the token endpoint of the client
IsTokenPost(w) ==
    /\ w.e.method = <<"POST">>
    /\ w.e.url = urlFor(server, <<"token">>, <<>>)
    /\ w.e.contentType = "application/x-www-form-urlencoded"

\* the access_token a token-endpoint response carries ("" when it carries none)
TokenOf(resp) ==
    IF ~resp.transportErr /\ resp.body.json /\ resp.body.has_access_token
    THEN resp.body.access_token ELSE ""

ClientCalls == { n \in DOMAIN calls : calls[n].op \in ClientOps }

HasStaticToken == server # NoServer /\ server.Credentials.AccessToken # ""

HasPassword == server # NoServer /\ server.Credentials.AccessToken = ""

\* the errors of a call that ends before anything is sent
PreSendErrors ==
    { "unknown resource", "json: unsupported type", "invalid method", "parse url" }

----------------------------------------------------------------------------
(* C1 *)

\* C1: New returns an error and no Server when ServerURL and Tenant are both empty
\* or both non-empty, and a Server with a nil error when exactly one of the two is
\* non-empty, whatever the other fields of the configuration are.
C1_NewValidatesIdentity ==
    last.op = "New" =>
        IF (last.config.ServerURL = <<>>) = (last.config.Tenant = <<>>)
        THEN last.err # NoError /\ last.server = NoServer
        ELSE last.err = NoError /\ last.server # NoServer

\* New was given both a ServerURL and a Tenant, a TLS configuration and a log level,
\* and refused
C1_Witness ==
    /\ last.op = "New"
    /\ last.config.ServerURL # <<>> /\ last.config.Tenant # <<>>
    /\ last.config.TLSClientConfig = "tlsA" /\ last.config.LogLevel = LevelWarn
    /\ last.err # NoError

----------------------------------------------------------------------------
(* C2 *)

\* C2: accessResource with a resource other than "secrets" and "secret-templates"
\* returns the "unknown resource" error and issues no HTTP request, neither a token
\* POST nor a resource request, whatever the method, path, payload and credential.
C2_UnknownResourceNoRequest ==
    (last.op = "accessResource"
        /\ last.resource \notin { <<"secrets">>, <<"secret-templates">> })
    => (last.err = "unknown resource" /\ WireOf(Len(calls)) = <<>>)

\* a client with a password credential was asked for an unknown resource
C2_Witness ==
    /\ HasPassword
    /\ last.op = "accessResource"
    /\ last.resource = <<"unknown-thing">>
    /\ last.method = <<"GET">> /\ last.path = <<"1">> /\ last.input.nil
    /\ last.err = "unknown resource"

----------------------------------------------------------------------------
(* C3 *)

\* C3 as stated: with a static AccessToken, every accessResource or uploadFile call
\* issues exactly one HTTP request, the resource request, with the header
\* "Bearer " + the static token, and no request to the token endpoint.
C3_AsStated ==
    HasStaticToken =>
        \A n \in ClientCalls :
            /\ Len(WireOf(n)) = 1
            /\ \A i \in DOMAIN WireOf(n) :
                /\ ~IsTokenPost(WireOf(n)[i])
                /\ WireOf(n)[i].e.authorization = <<"Bearer ", server.Credentials.AccessToken>>

\* C3: with a static AccessToken, no call issues a request to the token endpoint;
\* a call issues at most one HTTP request, which carries "Bearer " + the static
\* token; it issues exactly one unless it ends before sending (unknown resource,
\* payload that cannot be encoded, request that cannot be built), and then none.
C3_StaticTokenNoGrant ==
    HasStaticToken =>
        \A n \in ClientCalls :
            /\ Len(WireOf(n)) = (IF calls[n].err \in PreSendErrors THEN 0 ELSE 1)
            /\ \A i \in DOMAIN WireOf(n) :
                /\ ~IsTokenPost(WireOf(n)[i])
                /\ WireOf(n)[i].e.authorization = <<"Bearer ", server.Credentials.AccessToken>>

\* a client holding a static token next to a username, password and domain has
\* made an accessResource call and an uploadFile call, each with one request
C3_Witness ==
    /\ HasStaticToken
    /\ server.Credentials.Username # "" /\ server.Credentials.Domain # ""
    /\ Len(calls) = 3
    /\ calls[2].op = "accessResource" /\ calls[3].op = "uploadFile"
    /\ Len(wire) = 2
    /\ wire[1].call = 2 /\ wire[2].call = 3

----------------------------------------------------------------------------
(* C4 *)

\* C4: with a password credential no token is kept: every successful accessResource
\* or uploadFile call issues one token POST and then its resource request, whose
\* Authorization is "Bearer " + the access_token that very POST returned; so N
\* successful calls issue N token POSTs.
C4_FreshTokenPerCall ==
    HasPassword =>
        /\ \A n \in ClientCalls :
              calls[n].err = NoError =>
                  /\ Len(WireOf(n)) = 2
                  /\ IsTokenPost(WireOf(n)[1])
                  /\ ~IsTokenPost(WireOf(n)[2])
                  /\ WireOf(n)[2].e.authorization
                        = <<"Bearer ", TokenOf(WireOf(n)[1].e.resp)>>
        /\ (\A n \in ClientCalls : calls[n].err = NoError) =>
              Cardinality({ i \in DOMAIN wire : IsTokenPost(wire[i]) })
                  = Cardinality(ClientCalls)

\* two successful calls in a row were granted different tokens and each used its own
C4_Witness ==
    /\ HasPassword
    /\ Len(calls) = 3
    /\ calls[2].err = NoError /\ calls[3].err = NoError
    /\ calls[2].op = "accessResource" /\ calls[3].op = "uploadFile"
    /\ Len(wire) = 4
    /\ wire[2].e.authorization = <<"Bearer ", "tokA">>
    /\ wire[4].e.authorization = <<"Bearer ", "tokB">>

----------------------------------------------------------------------------
(* C5 *)

\* s without its leading and trailing slashes: what lies between its first and
\* its last piece that is not a slash
Stripped(s) ==
    LET kept == { i \in DOMAIN s : s[i] # "/" }
        first == CHOOSE i \in kept : \A j \in kept : i <= j
        final == CHOOSE i \in kept : \A j \in kept : j <= i
    IN  IF kept = {} THEN <<>> ELSE SubSeq(s, first, final)

NoDoubleSlash(u) ==
    \A i \in 1 .. (Len(u) - 1) : ~(u[i] = "/" /\ u[i + 1] = "/")

\* u without the "https://" it starts with, if it does
AfterScheme(u) ==
    IF Len(u) >= 3 /\ SubSeq(u, 1, 3) = Scheme THEN SubSeq(u, 4, Len(u)) ELSE u

\* the base of the client: ServerURL when set, the cloud URL of the tenant otherwise
BaseOf(s) ==
    IF s.ServerURL # <<>> THEN s.ServerURL
    ELSE <<"https:", "/", "/">> \o s.Tenant \o <<".secretservercloud.">> \o s.TLD \o <<"/">>

\* the URL the specification describes
ExpectedURL(s, res, path) ==
    IF res = <<"token">>
    THEN Stripped(BaseOf(s)) \o <<"/">> \o Stripped(s.tokenPathURI)
    ELSE Stripped(BaseOf(s)) \o <<"/">> \o Stripped(s.apiPathURI) \o <<"/">>
            \o Stripped(res) \o <<"/">> \o Stripped(path)

\* the slashes of the inputs that are doubled are leading or trailing ones
OnlyEdgeSlashes(s, res, path) ==
    /\ NoDoubleSlash(AfterScheme(Stripped(BaseOf(s))))
    /\ NoDoubleSlash(s.apiPathURI) /\ NoDoubleSlash(s.tokenPathURI)
    /\ NoDoubleSlash(Stripped(res)) /\ NoDoubleSlash(Stripped(path))

ExampleURL ==
    <<"https:", "/", "/", "h", "/", "api", "/", "v1", "/", "secrets", "/",
      "5", "/", "fields", "/", "x">>

IsExample ==
    /\ last.op = "urlFor"
    /\ server.ServerURL = <<"https:", "/", "/", "h", "/">>
    /\ server.apiPathURI = <<"api", "/", "v1">>
    /\ last.resource = <<"secrets">>
    /\ last.path = ExamplePath

\* C5 as stated: urlFor yields {base}/{tokenPath} for "token" and
\* {base}/{apiPath}/{resource}/{path} otherwise, each segment stripped of its
\* leading and trailing slashes, and no double slash after the scheme results from
\* leading or trailing slashes in any input.
C5_AsStated ==
    last.op = "urlFor" =>
        /\ last.url = ExpectedURL(server, last.resource, last.path)
        /\ (last.resource # <<>> /\ OnlyEdgeSlashes(server, last.resource, last.path))
              => NoDoubleSlash(AfterScheme(last.url))
        /\ IsExample => last.url = ExampleURL

\* C5: the same URL; no double slash after the scheme results from leading or
\* trailing slashes when the resource is "token", or when apiPath and resource both
\* keep a character once their slashes are stripped (an apiPath or a resource made
\* of slashes only leaves an empty segment between two slashes).
C5_UrlForJoinsStrippedSegments ==
    last.op = "urlFor" =>
        /\ last.url = ExpectedURL(server, last.resource, last.path)
        /\ ( /\ OnlyEdgeSlashes(server, last.resource, last.path)
             /\ \/ last.resource = <<"token">>
                \/ (server.apiPathURI # <<>> /\ Stripped(last.resource) # <<>>) )
              => NoDoubleSlash(AfterScheme(last.url))
        /\ IsExample => last.url = ExampleURL

\* the example of the specification was resolved
C5_Witness ==
    IsExample /\ last.url = ExampleURL

----------------------------------------------------------------------------
(* C6 *)

\* the filename on the file part of the upload just made
PartName == wire[Len(wire)].e.payload.file.filename

Uploaded == last.op = "uploadFile" /\ last.err = NoError

\* f ends with a dot followed by one or more word characters
EndsWithDotWord(f) ==
    \E j \in DOMAIN f :
        /\ f[j] = "." /\ j < Len(f)
        /\ \A k \in (j + 1) .. Len(f) : f[k] \in WordChars

\* f ends with a character other than a dot, a dot, and one or more word characters
EndsWithNameDotWord(f) ==
    \E j \in DOMAIN f :
        /\ j > 1 /\ f[j - 1] # "."
        /\ f[j] = "." /\ j < Len(f)
        /\ \A k \in (j + 1) .. Len(f) : f[k] \in WordChars

\* C6 as stated: the part's filename is "File.txt" for an empty Filename, the
\* Filename unchanged when it ends with a dot and word characters, and the Filename
\* followed by ".txt" otherwise.
C6_AsStated ==
    Uploaded =>
        PartName = (IF last.fileField.Filename = <<>>
                    THEN <<"F", "i", "l", "e", ".", "t", "x", "t">>
                    ELSE IF EndsWithDotWord(last.fileField.Filename)
                         THEN last.fileField.Filename
                         ELSE last.fileField.Filename \o <<".", "t", "x", "t">>)

\* C6: the part's filename is "File.txt" for an empty Filename, the Filename
\* unchanged when it ends with a character other than a dot, then a dot, then word
\* characters, and the Filename followed by ".txt" otherwise.
C6_PartFilename ==
    Uploaded =>
        PartName = (IF last.fileField.Filename = <<>>
                    THEN <<"F", "i", "l", "e", ".", "t", "x", "t">>
                    ELSE IF EndsWithNameDotWord(last.fileField.Filename)
                         THEN last.fileField.Filename
                         ELSE last.fileField.Filename \o <<".", "t", "x", "t">>)

\* "foo.bin" was uploaded under its own name
C6_Witness ==
    /\ Uploaded
    /\ last.fileField.Filename = <<"f", "o", "o", ".", "b", "i", "n">>
    /\ PartName = <<"f", "o", "o", ".", "b", "i", "n">>

----------------------------------------------------------------------------
(* C7 *)

\* a token-endpoint response that is no usable grant: the call failed, the body is
\* not JSON, or it carries no access_token
Malformed(resp) ==
    \/ resp.transportErr
    \/ ~(resp.status > 199 /\ resp.status < 300)
    \/ ~resp.body.json
    \/ ~resp.body.has_access_token

\* C7: with a password credential, a token-endpoint call that fails, cannot be
\* parsed or carries no access_token makes the call fail with an error, with no
\* resource request; no request is ever sent with an empty bearer token.
C7_AsStated ==
    HasPassword =>
        /\ \A n \in ClientCalls :
              \A i \in DOMAIN WireOf(n) :
                  (IsTokenPost(WireOf(n)[i]) /\ Malformed(WireOf(n)[i].e.resp))
                  => (calls[n].err # NoError /\ Len(WireOf(n)) = 1)
        /\ \A i \in DOMAIN wire : wire[i].e.authorization # <<"Bearer ", "">>

----------------------------------------------------------------------------
(* C8 *)

\* C8: every call that returns an error has emitted an error-level log entry.
C8_AsStated ==
    \A n \in DOMAIN calls :
        calls[n].err # NoError =>
            \E i \in DOMAIN LogsOf(n) : LogsOf(n)[i].e.level = "error"

----------------------------------------------------------------------------
(* C9 *)

Latest(S) == CHOOSE n \in S : \A m \in S : m <= n

\* the New calls that passed the validation, and those of them given a TLS configuration
Passed == { n \in DOMAIN calls : calls[n].op = "New" /\ calls[n].err = NoError }

PassedWithTLS == { n \in Passed : calls[n].tls # "nil" }

\* C9: the TLS configuration of the default transport is that of the latest New call
\* that passed validation with a non-nil TLSClientConfig (the initial one if there is
\* none), and the global level is that of the latest New call that passed validation:
\* a failing New call changes neither, a nil TLSClientConfig leaves the transport as
\* it is, and the transport is the process's, not the client's.
C9_TransportFollowsLatestValidNew ==
    /\ transportTLS = (IF PassedWithTLS = {} THEN "nil" ELSE calls[Latest(PassedWithTLS)].tls)
    /\ globalLevel = (IF Passed = {} THEN "debug" ELSE zerologLevel(calls[Latest(Passed)].level))

\* New set the transport to tlsA; a later New that was given tlsB failed and left
\* the transport and the level alone
C9_Witness ==
    /\ Len(calls) = 2
    /\ calls[1].err = NoError /\ calls[1].tls = "tlsA" /\ calls[1].level = LevelError
    /\ calls[2].err # NoError /\ calls[2].tls = "tlsB" /\ calls[2].level = LevelTrace
    /\ transportTLS = "tlsA" /\ globalLevel = "error"

----------------------------------------------------------------------------
(* C10 *)

\* a token-endpoint response that getAccessToken turns into an error
Failed(resp) ==
    \/ resp.transportErr
    \/ ~(resp.status > 199 /\ resp.status < 300)
    \/ ~resp.body.json

\* C10: a failure ends the call where it occurs: an accessResource payload that
\* cannot be encoded causes no HTTP request at all; a failed token acquisition is
\* returned with no resource request sent; and whatever happened before, a call of
\* a client with a password credential that sends anything starts with its own
\* token POST.
C10_FailureAbortsCall ==
    /\ (last.op = "accessResource"
          /\ last.resource \in { <<"secrets">>, <<"secret-templates">> }
          /\ last.input.type = "chan")
        => (last.err = "json: unsupported type" /\ WireOf(Len(calls)) = <<>>)
    /\ \A n \in ClientCalls :
          \A i \in DOMAIN WireOf(n) :
              (IsTokenPost(WireOf(n)[i]) /\ Failed(WireOf(n)[i].e.resp))
              => /\ calls[n].err \in { "transport error", "status error", "invalid character" }
                 /\ Len(WireOf(n)) = 1
    /\ HasPassword =>
          \A n \in ClientCalls : WireOf(n) # <<>> => IsTokenPost(WireOf(n)[1])

\* a call failed at the token endpoint and sent nothing more; the next call on the
\* same client fetched its own token and succeeded
C10_Witness ==
    /\ HasPassword
    /\ Len(calls) = 3
    /\ calls[2].err = "invalid character" /\ Len(WireOf(2)) = 1
    /\ calls[3].err = NoError /\ Len(WireOf(3)) = 2
    /\ IsTokenPost(WireOf(3)[1])

====
